---- MODULE Spec2Model ----
(***************************************************************************)
(* Model of the matcha restock bot: the on-demand Telegram bot             *)
(* (src/ondemand_bot.py) and the stand-alone check script                  *)
(* (src/manual_check_script.py).                                           *)
(*                                                                         *)
(* Python values are represented as follows.                               *)
(*   str            a sequence of characters; a character is a TLA+ string *)
(*                  ("a", " ", "5", or a code point name such as "U20AC")  *)
(*   str or None    a sequence of characters, or NoneStr                   *)
(*   True/False/None  the strings "True", "False", "None"                  *)
(*   dict           a record; a missing key is a missing field             *)
(*   dict or None   a record, or None                                      *)
(*   list           a sequence                                             *)
(*   datetime       an integer number of seconds                           *)
(***************************************************************************)
EXTENDS FiniteSets, Integers, Sequences, TLC

VARIABLES
    products_file,  \* content of products.json: a list of product dicts
    CACHE,          \* the bot's CACHE dict: url -> (cache_time, cache_data)
    clock,          \* what datetime.now() returns
    ticks,          \* how often the clock has advanced (bounds the model)
    script_runs,    \* how often the script has been run (bounds the model)
    round,          \* the check round in progress, if any
    outbox,         \* the Telegram messages a round has tried to send
    last_check,     \* the latest call of the bot's check_product
    keyboard,       \* the urls shown by the latest remove keyboard
    last_op,        \* the latest store command the bot handled
    eng_in,         \* input of the extraction engine under test
    eng_out,        \* its output
    tasks           \* the check_product coroutines of one asyncio.gather

vars == <<products_file, CACHE, clock, ticks, script_runs, round, outbox, last_check,
          keyboard, last_op, eng_in, eng_out, tasks>>

(***************************************************************************)
(* Python's None, for a value that is otherwise a dict, and for one that   *)
(* is otherwise a str.                                                     *)
(***************************************************************************)
None == [py |-> "None"]
NoneStr == <<"None">>

\* `if not text` / `if text` of a str-or-None value
Falsy(text) == text = NoneStr \/ text = <<>>

(***************************************************************************)
(* Characters.  U20AC is the euro sign; U201A, U00C7, U00A8 are the three  *)
(* characters the bot's source file holds where the script's holds U20AC.  *)
(***************************************************************************)
Digit == {"0", "1", "2", "3", "4", "5", "6", "7", "8", "9"}
IsDigit(c) == c \in Digit
\* str.split() and the regex class \s
IsSpace(c) == c \in {" ", "LF", "TAB"}
\* the regex class [.,]
IsSep(c) == c \in {".", ","}

UpperCase == <<"A", "B", "C", "D", "E", "F", "G", "H", "I", "J", "K", "L", "M",
               "N", "O", "P", "Q", "R", "S", "T", "U", "V", "W", "X", "Y", "Z",
               "U00C7">>
LowerCase == <<"a", "b", "c", "d", "e", "f", "g", "h", "i", "j", "k", "l", "m",
               "n", "o", "p", "q", "r", "s", "t", "u", "v", "w", "x", "y", "z",
               "U00E7">>

\* str.lower() of one character
LowerChar(c) ==
    IF \E i \in 1..Len(UpperCase) : UpperCase[i] = c
    THEN LowerCase[CHOOSE i \in 1..Len(UpperCase) : UpperCase[i] = c]
    ELSE c

\* str.lower()
Lower(text) == [i \in 1..Len(text) |-> LowerChar(text[i])]

\* `sub in text` of two str
Contains(sub, text) ==
    \E i \in 0..(Len(text) - Len(sub)) : SubSeq(text, i + 1, i + Len(sub)) = sub

\* str.strip()
RECURSIVE Strip(_)
Strip(text) ==
    IF text = <<>> THEN <<>>
    ELSE IF IsSpace(Head(text)) THEN Strip(Tail(text))
    ELSE IF IsSpace(text[Len(text)]) THEN Strip(SubSeq(text, 1, Len(text) - 1))
    ELSE text

\* ' '.join(text.split()), reading text from position i on; started says that
\* a word has been emitted, pending that whitespace was read after it
RECURSIVE JoinSplit(_, _, _, _)
JoinSplit(text, i, started, pending) ==
    IF i > Len(text) THEN <<>>
    ELSE IF IsSpace(text[i]) THEN JoinSplit(text, i + 1, started, started)
    ELSE (IF pending THEN <<" ">> ELSE <<>>) \o <<text[i]>>
         \o JoinSplit(text, i + 1, TRUE, FALSE)

\* text.replace('  ', ' ')
RECURSIVE HalveSpaces(_)
HalveSpaces(text) ==
    IF Len(text) < 2 THEN text
    ELSE IF text[1] = " " /\ text[2] = " "
    THEN <<" ">> \o HalveSpaces(SubSeq(text, 3, Len(text)))
    ELSE <<text[1]>> \o HalveSpaces(Tail(text))

\* a variant of clean_text: pairs of spaces are replaced once, nothing is
\* trimmed
CleanPairs(text) ==
    IF Falsy(text) THEN <<>> ELSE HalveSpaces(Lower(text))

(***************************************************************************)
(* clean_text: lower-case, collapse whitespace runs, trim.                 *)
(***************************************************************************)
clean_text(text) ==
    IF Falsy(text) THEN <<>>
    ELSE JoinSplit(Lower(text), 1, FALSE, FALSE)

(***************************************************************************)
(* Numbers: float(...) of a matched amount and its "%.2f" rendering.       *)
(***************************************************************************)
DigitChars == <<"0", "1", "2", "3", "4", "5", "6", "7", "8", "9">>
DigitVal(c) == (CHOOSE n \in 1..10 : DigitChars[n] = c) - 1

RECURSIVE ToInt(_)
ToInt(ds) ==
    IF ds = <<>> THEN 0
    ELSE 10 * ToInt(SubSeq(ds, 1, Len(ds) - 1)) + DigitVal(ds[Len(ds)])

RECURSIVE ToDigits(_)
ToDigits(n) ==
    IF n < 10 THEN <<DigitChars[n + 1]>>
    ELSE ToDigits(n \div 10) \o <<DigitChars[(n % 10) + 1]>>

RECURSIVE Pow2Mod(_, _)
Pow2Mod(e, m) == IF e = 0 THEN 1 % m ELSE (2 * Pow2Mod(e - 1, m)) % m

RECURSIVE Pow2(_)
Pow2(e) == IF e = 0 THEN 1 ELSE 2 * Pow2(e - 1)

\* floor(log2(m / 200)) for 1 <= m < 200 * 2^20
Log2Of200th(m) ==
    CHOOSE l \in -8..19 :
        IF l >= 0 THEN 200 * Pow2(l) <= m /\ m < 400 * Pow2(l)
        ELSE 200 <= m * Pow2(-l) /\ m * Pow2(-l) < 400

\* The amount n/1000 with n ending in 5 lies half-way between two cent values.
\* float() yields the IEEE double nearest to it and "%.2f" rounds that double's
\* exact value: up iff the double is above n/1000, or equals it (n/1000 a
\* multiple of 1/8) and the lower cent value is odd (round-half-even).
TieRoundsUp(n) ==
    LET m == n \div 5
        e == 52 - Log2Of200th(m)
        r == ((m % 200) * Pow2Mod(e, 200)) % 200
    IN  IF m % 25 = 0 THEN ((n \div 10) % 2) = 1 ELSE r > 100

AllZero(ds) == \A i \in 1..Len(ds) : ds[i] = "0"

\* round(float(group) * 100) as "%.2f" rounds it; group is digits, optionally
\* followed by a separator and digits
Cents(group) ==
    LET p == IF \E i \in 1..Len(group) : IsSep(group[i])
             THEN CHOOSE i \in 1..Len(group) : IsSep(group[i])
             ELSE Len(group) + 1
        ip == ToInt(SubSeq(group, 1, p - 1))
        frac == SubSeq(group, p + 1, Len(group))
        f2 == SubSeq(frac \o <<"0", "0">>, 1, 2)
        tail == SubSeq(frac, 3, Len(frac))
        low == ip * 100 + ToInt(f2)
    IN  IF AllZero(tail) THEN low
        ELSE IF DigitVal(tail[1]) < 5 THEN low
        ELSE IF DigitVal(tail[1]) > 5 \/ ~AllZero(Tail(tail)) THEN low + 1
        ELSE IF TieRoundsUp(low * 10 + 5) THEN low + 1 ELSE low

\* f"{price:.2f}"
Format2f(cents) ==
    ToDigits(cents \div 100) \o <<".">>
        \o <<DigitChars[((cents \div 10) % 10) + 1], DigitChars[(cents % 10) + 1]>>

(***************************************************************************)
(* Regular expressions of extract_price, matched as re.search matches      *)
(* them: leftmost start, greedy quantifiers.                               *)
(***************************************************************************)
\* the literal lit at position i, under re.IGNORECASE
HasAt(text, i, lit) ==
    /\ i >= 1
    /\ i + Len(lit) - 1 <= Len(text)
    /\ \A k \in 1..Len(lit) : LowerChar(text[i + k - 1]) = LowerChar(lit[k])

\* end of the longest run of digits starting at i (i - 1 when there is none)
DigitsEnd(text, i) ==
    CHOOSE j \in (i - 1)..Len(text) :
        /\ \A k \in i..j : IsDigit(text[k])
        /\ j = Len(text) \/ ~IsDigit(text[j + 1])

\* end of the longest run of whitespace starting at i (i - 1 when there is none)
SpacesEnd(text, i) ==
    CHOOSE j \in (i - 1)..Len(text) :
        /\ \A k \in i..j : IsSpace(text[k])
        /\ j = Len(text) \/ ~IsSpace(text[j + 1])

\* end of the greedy match of \d+[.,]?\d* starting at the digit at i
NumberEnd(text, i) ==
    LET e1 == DigitsEnd(text, i)
    IN  IF e1 < Len(text) /\ IsSep(text[e1 + 1]) THEN DigitsEnd(text, e1 + 2) ELSE e1

\* lit\s*(\d+[.,]?\d*) matched at i: the group's bounds, or <<>>
PrefixAt(text, lit, i) ==
    LET j == SpacesEnd(text, i + Len(lit)) + 1
    IN  IF HasAt(text, i, lit) /\ j <= Len(text) /\ IsDigit(text[j])
        THEN <<j, NumberEnd(text, j)>> ELSE <<>>

\* (\d+[.,]?\d*)\s*lit matched at i: the group's bounds, or <<>>
SuffixAt(text, lit, i) ==
    LET e == NumberEnd(text, i)
    IN  IF IsDigit(text[i]) /\ HasAt(text, SpacesEnd(text, e + 1) + 1, lit)
        THEN <<i, e>> ELSE <<>>

\* a variant of BareAt: one decimal is enough
BareOneDecimal(text, i) ==
    LET e == DigitsEnd(text, i)
    IN  IF /\ IsDigit(text[i])
           /\ e + 2 <= Len(text)
           /\ IsSep(text[e + 1])
           /\ IsDigit(text[e + 2])
        THEN <<i, DigitsEnd(text, e + 2)>> ELSE <<>>

\* (\d+[.,]\d{2}) matched at i: the group's bounds, or <<>>
BareAt(text, i) ==
    LET e == DigitsEnd(text, i)
    IN  IF /\ IsDigit(text[i])
           /\ e + 3 <= Len(text)
           /\ IsSep(text[e + 1])
           /\ IsDigit(text[e + 2])
           /\ IsDigit(text[e + 3])
        THEN <<i, e + 3>> ELSE <<>>

\* the five price_patterns for the currency symbol written in the source file
price_patterns(symbol) ==
    << [kind |-> "prefix", lit |-> symbol],
       [kind |-> "suffix", lit |-> symbol],
       [kind |-> "prefix", lit |-> <<"E", "U", "R">>],
       [kind |-> "suffix", lit |-> <<"E", "U", "R">>],
       [kind |-> "bare", lit |-> <<>>] >>

MatchAt(pattern, text, i) ==
    IF pattern.kind = "prefix" THEN PrefixAt(text, pattern.lit, i)
    ELSE IF pattern.kind = "suffix" THEN SuffixAt(text, pattern.lit, i)
    ELSE BareAt(text, i)

\* group(1) of the leftmost of the matches (the bounds of their groups), or
\* NoneStr when there is none
LeftmostGroup(text, matches) ==
    IF matches = {} THEN NoneStr
    ELSE LET b == CHOOSE h \in matches : \A g \in matches : h[1] <= g[1]
         IN  SubSeq(text, b[1], b[2])

\* re.search(pattern, text, re.IGNORECASE): match.group(1), or NoneStr
re_search(pattern, text) ==
    LeftmostGroup(text, {MatchAt(pattern, text, i) : i \in 1..Len(text)} \ {<<>>})

\* text.replace(' ', '').replace(',', '.')
StripSpacesCommas(text) ==
    LET t == SelectSeq(text, LAMBDA c : c # " ")
    IN  [i \in 1..Len(t) |-> IF t[i] = "," THEN "." ELSE t[i]]

(***************************************************************************)
(* extract_price, for the currency symbol of the file it is in.  float()   *)
(* accepts every string the patterns capture, so the ValueError branch is  *)
(* never taken.                                                            *)
(***************************************************************************)
\* a variant of FirstMatch: the last pattern that matches returns
LastMatch(symbol, matches) ==
    LET hit == {k \in 1..Len(matches) : matches[k] # NoneStr}
    IN  IF hit = {} THEN NoneStr
        ELSE symbol \o Format2f(Cents(matches[CHOOSE h \in hit : \A g \in hit : h >= g]))

\* `for pattern in price_patterns`: matches[k] is what the k-th pattern finds;
\* the first pattern that matches returns
FirstMatch(symbol, matches) ==
    LET hit == {k \in 1..Len(matches) : matches[k] # NoneStr}
    IN  IF hit = {} THEN NoneStr
        ELSE symbol \o Format2f(Cents(matches[CHOOSE h \in hit : \A g \in hit : h <= g]))

extract_price(symbol, text) ==
    IF Falsy(text) THEN NoneStr
    ELSE FirstMatch(symbol, [k \in 1..Len(price_patterns(symbol)) |->
                                re_search(price_patterns(symbol)[k],
                                          StripSpacesCommas(text))])

\* the currency symbol in src/ondemand_bot.py and in src/manual_check_script.py
BOT_SYMBOL == <<"U201A", "U00C7", "U00A8">>
SCRIPT_SYMBOL == <<"U20AC">>

(***************************************************************************)
(* Site configurations.  site_configs.json is an insertion-ordered mapping *)
(* modelled as a list of [key, config]; a url is modelled as urlparse      *)
(* splits it, [netloc, path].                                              *)
(***************************************************************************)
EmptyDict == [k \in {} |-> k]

\* dict.get(key, []) of a config
Get(config, key) == IF key \in DOMAIN config THEN config[key] ELSE <<>>

DefaultKey == <<"d", "e", "f", "a", "u", "l", "t">>

get_site_config(configs, url) ==
    LET domain == Lower(url.netloc)
        hits == {i \in 1..Len(configs) : Contains(configs[i].key, domain)}
    IN  IF hits # {} THEN configs[CHOOSE h \in hits : \A g \in hits : h <= g].config
        ELSE IF \E i \in 1..Len(configs) : configs[i].key = DefaultKey
        THEN configs[CHOOSE i \in 1..Len(configs) : configs[i].key = DefaultKey].config
        ELSE EmptyDict

(***************************************************************************)
(* A fetched page (the BeautifulSoup tree) is modelled as the list of its  *)
(* text-bearing elements in document order, each with the set of selectors *)
(* that match it and its text.                                             *)
(***************************************************************************)
\* soup.select(selector) raises SelectorSyntaxError for a selector that is
\* not CSS; "[" stands for such a selector
SelectorSyntaxError(selector) == selector = "["

\* soup.select(selector), for a selector that is CSS
select(soup, selector) == SelectSeq(soup, LAMBDA el : selector \in el.sels)

\* soup.get_text()
RECURSIVE get_text(_)
get_text(soup) == IF soup = <<>> THEN <<>> ELSE Head(soup).text \o get_text(Tail(soup))

\* the page-level pattern [sym]\s*\d+[.,]?\d*|\d+[.,]?\d*\s*[sym] found in text
\* (re.search, no IGNORECASE); the class holds the characters of the symbol
CurrencyAdjacent(symbol, text) ==
    LET class == {symbol[k] : k \in 1..Len(symbol)}
    IN  \E i \in 1..Len(text) :
            \/ /\ text[i] \in class
               /\ LET j == SpacesEnd(text, i + 1) + 1
                  IN  j <= Len(text) /\ IsDigit(text[j])
            \/ /\ IsDigit(text[i])
               /\ LET j == SpacesEnd(text, NumberEnd(text, i) + 1) + 1
                  IN  j <= Len(text) /\ text[j] \in class

\* soup.find_all(text=re.compile(...)): the texts that match
find_all_price_text(symbol, soup) ==
    LET hits == SelectSeq(soup, LAMBDA el : CurrencyAdjacent(symbol, el.text))
    IN  [i \in 1..Len(hits) |-> hits[i].text]

(***************************************************************************)
(* The availability cascade of check_product.                              *)
(***************************************************************************)
\* a variant of IndicatorVerdict: the in-stock loop runs after the
\* out-of-stock loop
InStockLast(config, text, is_available) ==
    LET ins == Get(config, "in_stock_texts")
        outs == Get(config, "out_of_stock_texts")
        after_out == IF \E i \in 1..Len(outs) : Contains(clean_text(outs[i]), text)
                     THEN "False" ELSE is_available
    IN  IF \E i \in 1..Len(ins) : Contains(clean_text(ins[i]), text)
        THEN "True" ELSE after_out

\* the two indicator loops on a normalized text; is_available is the value
\* the variable has before them
IndicatorVerdict(config, text, is_available) ==
    LET ins == Get(config, "in_stock_texts")
        outs == Get(config, "out_of_stock_texts")
        after_in == IF \E i \in 1..Len(ins) : Contains(clean_text(ins[i]), text)
                    THEN "True" ELSE is_available
    IN  IF \E i \in 1..Len(outs) : Contains(clean_text(outs[i]), text)
        THEN "False" ELSE after_in

\* a variant of AvailabilityBreak: the loop ends at the first selector that
\* matched an element
AvailabilityBreakOnElement(elements, is_available) == TRUE

\* `if is_available is not None: break` at the end of a selector's iteration
AvailabilityBreak(elements, is_available) == is_available # "None"

\* the loop over availability_selectors from the k-th selector on: the verdict
\* and the indices of the selectors the loop visited
\* the body of `if elements:`: the verdict of the first element
ElementVerdict(config, elements) ==
    IF elements # <<>>
    THEN IndicatorVerdict(config, clean_text(elements[1].text), "None")
    ELSE "None"

\* one iteration of the loop: stop at selector k with verdict v, or go on
\* with the rest of the selectors
AvailabilityStep(k, elements, v, rest) ==
    IF elements # <<>> /\ AvailabilityBreak(elements, v)
    THEN [is_available |-> v, tried |-> <<k>>]
    ELSE [is_available |-> rest.is_available, tried |-> <<k>> \o rest.tried]

RECURSIVE AvailabilityScan(_, _, _)
AvailabilityScan(config, soup, k) ==
    LET selectors == Get(config, "availability_selectors")
    IN  IF k > Len(selectors) THEN [is_available |-> "None", tried |-> <<>>]
        ELSE AvailabilityStep(k, select(soup, selectors[k]),
                              ElementVerdict(config, select(soup, selectors[k])),
                              AvailabilityScan(config, soup, k + 1))

\* selectors, then the whole page, then the default: the verdict, the selectors
\* visited, whether the page text was tested and whether the default was taken
\* a variant of AvailabilityResult: no default
AvailabilityNoDefault(scan, page) ==
    LET v == IF scan.is_available = "None" THEN page ELSE scan.is_available
    IN  [is_available |-> v,
         tried |-> scan.tried,
         page_tested |-> scan.is_available = "None",
         defaulted |-> v = "None"]

\* after the selectors: the page text when they gave no verdict, then the
\* default
AvailabilityResult(scan, page) ==
    LET v == IF scan.is_available = "None" THEN page ELSE scan.is_available
    IN  [is_available |-> IF v = "None" THEN "True" ELSE v,
         tried |-> scan.tried,
         page_tested |-> scan.is_available = "None",
         defaulted |-> v = "None"]

Availability(config, soup) ==
    AvailabilityResult(AvailabilityScan(config, soup, 1),
                       IndicatorVerdict(config, clean_text(get_text(soup)), "None"))

(***************************************************************************)
(* The price cascade of check_product.                                     *)
(***************************************************************************)
\* a variant of PriceBreak: the loop ends at the first selector that matched
\* an element
PriceBreakOnElement(elements, price) == TRUE

\* `if price: break` at the end of a price selector's iteration
PriceBreak(elements, price) == ~Falsy(price)

\* one iteration of the loop: stop at selector k with price p, or go on with
\* the rest of the selectors
PriceStep(k, elements, p, rest) ==
    IF elements # <<>> /\ PriceBreak(elements, p)
    THEN [price |-> p, tried |-> <<k>>]
    ELSE [price |-> rest.price, tried |-> <<k>> \o rest.tried]

\* extract_price of the first of texts, each stripped when strip says so, or
\* NoneStr when there is none
FirstPrice(symbol, texts, strip) ==
    IF texts = <<>> THEN NoneStr
    ELSE extract_price(symbol, IF strip THEN Strip(texts[1]) ELSE texts[1])

\* get_text() of each element
Texts(elements) == [i \in 1..Len(elements) |-> elements[i].text]

RECURSIVE PriceScan(_, _, _, _)
PriceScan(symbol, config, soup, k) ==
    LET selectors == Get(config, "price_selectors")
    IN  IF k > Len(selectors) THEN [price |-> NoneStr, tried |-> <<>>]
        ELSE PriceStep(k, select(soup, selectors[k]),
                       FirstPrice(symbol, Texts(select(soup, selectors[k])), TRUE),
                       PriceScan(symbol, config, soup, k + 1))

\* a variant of PriceResult: the page is scanned whatever the selectors gave,
\* and its price is preferred
PriceResultPageFirst(scan, page_price) ==
    [price |-> IF ~Falsy(page_price) THEN page_price ELSE scan.price,
     tried |-> scan.tried,
     page_scanned |-> TRUE]

\* note: when the last selector visited matched an element without a price and
\* no later selector matched, price stays None, as in the code
PriceResult(scan, page_price) ==
    [price |-> IF ~Falsy(scan.price) THEN scan.price ELSE page_price,
     tried |-> scan.tried,
     page_scanned |-> Falsy(scan.price)]

Price(symbol, config, soup) ==
    PriceResult(PriceScan(symbol, config, soup, 1),
                FirstPrice(symbol, find_all_price_text(symbol, soup), FALSE))

\* what check_product derives from a fetched page
\* one of the selectors a loop visited makes soup.select raise (the loop
\* ends there, and check_product in its except branch)
Raises(selectors, tried) ==
    \E k \in 1..Len(tried) : SelectorSyntaxError(selectors[tried[k]])

Extraction(config, a, p) ==
    [available |-> a.is_available, price |-> p.price,
     avail_tried |-> a.tried, page_tested |-> a.page_tested,
     defaulted |-> a.defaulted,
     price_tried |-> p.tried, page_scanned |-> p.page_scanned,
     raised |-> \/ Raises(Get(config, "availability_selectors"), a.tried)
                \/ Raises(Get(config, "price_selectors"), p.tried)]

Extract(symbol, config, soup) ==
    Extraction(config, Availability(config, soup), Price(symbol, config, soup))

(***************************************************************************)
(* The world of the model: two product urls of one shop, the shop's site   *)
(* configuration and the pages it may serve.                               *)
(***************************************************************************)
URL1 == [netloc |-> <<"S", "h", ".", "i", "t">>, path |-> <<"/", "1">>]
URL2 == [netloc |-> <<"S", "h", ".", "i", "t">>, path |-> <<"/", "2">>]
URLS == {URL1, URL2}

InStockText == <<"i", "n", " ", "s", "t", "o", "c", "k">>
SoldOutText == <<"s", "o", "l", "d", " ", "o", "u", "t">>

SITE_CONFIGS ==
    << [key |-> <<"s", "h", ".", "i", "t">>,
        config |-> [availability_selectors |-> <<"a1">>,
                    in_stock_texts |-> <<InStockText>>,
                    out_of_stock_texts |-> <<SoldOutText>>,
                    price_selectors |-> <<"p1">>]],
       [key |-> DefaultKey,
        config |-> [in_stock_texts |-> <<InStockText>>,
                    out_of_stock_texts |-> <<SoldOutText>>]] >>

\* an element of a page: the selectors that match it, and its text
El(sels, text) == [sels |-> sels, text |-> text]

PageInStock10 ==
    <<El({"a1"}, <<"I", "n", " ", " ", "S", "t", "o", "c", "k">>), El({"p1"}, <<"U20AC", " ", "1", "0", ",", "0", "0">>)>>
PageSoldOut10 ==
    <<El({"a1"}, <<"S", "O", "L", "D", " ", "O", "U", "T">>), El({"p1"}, <<"U20AC", " ", "1", "0", ",", "0", "0">>)>>
PageInStock12 ==
    <<El({"a1"}, <<"I", "n", " ", "S", "t", "o", "c", "k">>), El({"p1"}, <<"1", "2", ".", "5", "0", " ", "U20AC">>)>>
PageNoPrice ==
    <<El({"a1"}, <<"i", "n", " ", "s", "t", "o", "c", "k">>)>>

PAGES == {PageInStock10, PageSoldOut10, PageInStock12, PageNoPrice}

\* the pages a url may serve: the price of URL2's product never changes
PagesOf(url) == IF url = URL1 THEN PAGES ELSE {PageInStock10, PageSoldOut10}

\* products.json as the program may find it at start: missing, or written by
\* hand with a product that has never been checked
InitialFiles == {<<>>, <<[url |-> URL1]>>}

\* what check_product derives from each page of the model's world, for each
\* url and each of the two copies of the code (computed once)
Extracted ==
    [symbol \in {BOT_SYMBOL, SCRIPT_SYMBOL}, url \in URLS, soup \in PAGES |->
        Extract(symbol, get_site_config(SITE_CONFIGS, url), soup)]

\* the result dict check_product builds from a fetched page, or None when the
\* extraction raised; last_checked is
\* now.isoformat(), which renders distinct instants as distinct strings and
\* is nowhere parsed back: the instant stands for its rendering
Result(x, now) ==
    IF x.raised THEN None
    ELSE [available |-> x.available, price |-> x.price, last_checked |-> now]

MakeResult(symbol, url, soup, now) == Result(Extracted[symbol, url, soup], now)

\* what a fetch of url may yield
Responses(url) ==
    {[ok |-> FALSE]} \cup {[ok |-> TRUE, soup |-> p] : p \in PagesOf(url)}

(***************************************************************************)
(* check_product.  A response is what session.get and raise_for_status     *)
(* yield: an error, or a page.                                             *)
(***************************************************************************)
CACHE_DURATION == 60

\* variants of CacheFresh: no entry is ever served; an entry is served one
\* second longer
CacheNeverFresh(entry, now) == FALSE
CacheFreshInclusive(entry, now) == now - entry[1] <= CACHE_DURATION

\* `(now - cache_time).total_seconds() < CACHE_DURATION`
CacheFresh(entry, now) == now - entry[1] < CACHE_DURATION

\* CACHE[url] = (now, result)
CachePut(cache, url, entry) ==
    [u \in DOMAIN cache \cup {url} |-> IF u = url THEN entry ELSE cache[u]]

\* a variant of CheckFailed: the failed check empties the cache
CheckFailedClears(cache) == [result |-> None, cache |-> EmptyDict, fetched |-> TRUE]

\* the except branch: log and return None
CheckFailed(cache) == [result |-> None, cache |-> cache, fetched |-> TRUE]

\* the rest of the try block once the page is fetched: an exception of the
\* extraction (result is None) ends in the except branch; otherwise
\* CACHE[url] = (now, result); return result
CheckDone(cache, now, url, result) ==
    IF result = None THEN CheckFailed(cache)
    ELSE [result |-> result, cache |-> CachePut(cache, url, <<now, result>>),
          fetched |-> TRUE]

\* the bot's check_product: the returned value, the cache afterwards, and
\* whether session.get was called
check_product(cache, now, url, response) ==
    IF url \in DOMAIN cache /\ CacheFresh(cache[url], now)
    THEN [result |-> cache[url][2], cache |-> cache, fetched |-> FALSE]
    ELSE IF ~response.ok THEN CheckFailed(cache)
    ELSE CheckDone(cache, now, url, MakeResult(BOT_SYMBOL, url, response.soup, now))

\* the script's check_product: no cache
script_check_product(now, url, response) ==
    IF ~response.ok THEN None
    ELSE MakeResult(SCRIPT_SYMBOL, url, response.soup, now)

(***************************************************************************)
(* Change detection, as the two check loops do it.                         *)
(***************************************************************************)
\* product.get('price')
GetPrice(product) == IF "price" \in DOMAIN product THEN product.price ELSE NoneStr

\* variants of Classify that the properties of the rounds must tell from it:
\* the elif tested first
ClassifyPriceFirst(product, result) ==
    IF /\ GetPrice(product) # result.price
       /\ GetPrice(product) # NoneStr
       /\ result.price # NoneStr
    THEN "PriceChanged"
    ELSE IF "available" \in DOMAIN product /\ product.available # result.available
    THEN "StateChanged"
    ELSE "Unchanged"

\* the two `is not None` tests of the elif left out
ClassifyAnyDifference(product, result) ==
    IF "available" \in DOMAIN product /\ product.available # result.available
    THEN "StateChanged"
    ELSE IF GetPrice(product) # result.price
    THEN "PriceChanged"
    ELSE "Unchanged"

\* the if / elif of the loop body: which notification is sent
Classify(product, result) ==
    IF "available" \in DOMAIN product /\ product.available # result.available
    THEN "StateChanged"
    ELSE IF /\ GetPrice(product) # result.price
            /\ GetPrice(product) # NoneStr
            /\ result.price # NoneStr
    THEN "PriceChanged"
    ELSE "Unchanged"

\* a variant of Update: the stored price is never written
UpdateNoPrice(product, result) ==
    [k \in DOMAIN product \cup {"available", "last_checked"} |->
        IF k = "available" THEN result.available
        ELSE IF k = "last_checked" THEN result.last_checked
        ELSE product[k]]

\* a variant of Update: a result without a price leaves the stored price
UpdateKeepPrice(product, result) ==
    [k \in DOMAIN product \cup {"available", "price", "last_checked"} |->
        IF k = "available" THEN result.available
        ELSE IF k = "price" /\ (result.price # NoneStr \/ "price" \notin DOMAIN product)
        THEN result.price
        ELSE IF k = "last_checked" THEN result.last_checked
        ELSE product[k]]

\* product.update({...})
Update(product, result) ==
    [k \in DOMAIN product \cup {"available", "price", "last_checked"} |->
        IF k = "available" THEN result.available
        ELSE IF k = "price" THEN result.price
        ELSE IF k = "last_checked" THEN result.last_checked
        ELSE product[k]]

(***************************************************************************)
(* State of a check round.  pc is "idle" (no round), "gather" (the bot's   *)
(* asyncio.gather is running the check tasks), "loop" (the loop over the   *)
(* products), or "done" (the round has returned; saved is <<>> when it     *)
(* returned without saving and <<file>> when it saved file).  log records, *)
(* per product the loop has handled, the record as loaded, the check       *)
(* result and the notification decided.                                    *)
(***************************************************************************)
Idle ==
    [pc |-> "idle", runner |-> "none", products |-> <<>>, results |-> <<>>,
     pending |-> {}, completed |-> <<>>, i |-> 1, updated_products |-> <<>>,
     changes_found |-> FALSE, log |-> <<>>, saved |-> <<>>]

Message(kind, idx, ok, n) == [kind |-> kind, idx |-> idx, ok |-> ok, n |-> n]

MaxTicks == 1
MaxScriptRuns == 1

NoCheck == [called |-> FALSE]

\* no store command handled yet
NoOp == [kind |-> "none"]

\* no gather in progress
NoTasks == [urls |-> <<>>, pc |-> <<>>, soup |-> <<>>, results |-> <<>>,
            running |-> 0, trace |-> <<>>]

\* the bot handles one update at a time; the script is another process
BotFree == round.pc = "idle" \/ (round.runner = "script" /\ round.pc # "done")

Init ==
    /\ products_file \in InitialFiles
    /\ CACHE = EmptyDict
    /\ clock = 0
    /\ ticks = 0
    /\ script_runs = 0
    /\ round = Idle
    /\ outbox = <<>>
    /\ last_check = NoCheck
    /\ keyboard = <<>>
    /\ last_op = NoOp
    /\ eng_in = EmptyDict
    /\ eng_out = EmptyDict
    /\ tasks = NoTasks

\* time passes between two operations: a cache lifetime (a round is taken to
\* last less than that)
Tick ==
    /\ ticks < MaxTicks
    /\ round.pc = "idle"
    /\ clock' = clock + CACHE_DURATION
    /\ ticks' = ticks + 1
    /\ UNCHANGED <<products_file, CACHE, script_runs, round, outbox, last_check,
                   keyboard, last_op, eng_in, eng_out, tasks>>

(***************************************************************************)
(* /add <url>                                                              *)
(***************************************************************************)
\* a variant of Monitored: the test looks at the store as the handler loaded
\* it, not at the list it is building
MonitoredAtLoad(products, url) ==
    \E j \in 1..Len(products_file) : products_file[j].url = url

\* any(p['url'] == url for p in products)
Monitored(products, url) == \E j \in 1..Len(products) : products[j].url = url

add_product(url, response) ==
    /\ BotFree
    /\ ~Monitored(products_file, url)
    /\ \E c \in {check_product(CACHE, clock, url, response)} :
           /\ CACHE' = c.cache
           /\ products_file' =
                IF c.result = None THEN products_file
                ELSE Append(products_file,
                            [url |-> url, available |-> c.result.available,
                             price |-> c.result.price,
                             last_checked |-> c.result.last_checked])
    /\ UNCHANGED <<clock, ticks, script_runs, round, outbox, last_check, keyboard, last_op,
                   eng_in, eng_out, tasks>>

(***************************************************************************)
(* check_all_products_manual (the bot's /check and "check now" button)     *)
(***************************************************************************)
BotRoundStart ==
    /\ round.pc = "idle"
    /\ IF products_file = <<>>
       THEN /\ outbox' = <<Message("NoProducts", 0, TRUE, 0)>>
            /\ round' = [Idle EXCEPT !.pc = "done", !.runner = "bot"]
       ELSE /\ outbox' = <<>>
            /\ round' = [Idle EXCEPT
                           !.pc = "gather", !.runner = "bot",
                           !.products = products_file,
                           !.results = [k \in 1..Len(products_file) |-> None],
                           !.pending = 1..Len(products_file)]
    /\ UNCHANGED <<products_file, CACHE, clock, ticks, script_runs, last_check,
                   keyboard, last_op, eng_in, eng_out, tasks>>

\* one task of asyncio.gather runs check_product to its end; the order in
\* which the tasks run is left open
BotCheckTask(k, response) ==
    /\ round.pc = "gather"
    /\ k \in round.pending
    /\ \E c \in {check_product(CACHE, clock, round.products[k].url, response)} :
           /\ CACHE' = c.cache
           /\ round' = [round EXCEPT
                          !.results[k] = c.result,
                          !.pending = @ \ {k},
                          !.completed = Append(@, k),
                          !.pc = IF round.pending = {k} THEN "loop" ELSE "gather"]
    /\ UNCHANGED <<products_file, clock, ticks, script_runs, outbox, last_check,
                   keyboard, last_op, eng_in, eng_out, tasks>>

\* a variant of LoopIndex: the products taken in the order their checks ended
CompletionIndex(r) == r.completed[r.i]

\* `for product, result in zip(products, results)`: the product of the
\* loop's i-th iteration
LoopIndex(r) == r.i

\* a variant of SkipFailed: a failed check ends the round
AbortOnFailed(r, entry) == [r EXCEPT !.pc = "done", !.log = Append(@, entry)]

\* `if result is None: continue`: the loop goes on with the next product, and
\* nothing is appended to updated_products
SkipFailed(r, entry) == [r EXCEPT !.i = @ + 1, !.log = Append(@, entry)]

\* one iteration of the bot's loop; sent_ok says whether send_message returned
BotLoopStep(sent_ok) ==
    /\ round.pc = "loop" /\ round.runner = "bot"
    /\ round.i <= Len(round.products)
    /\ LET k == LoopIndex(round)
           product == round.products[k]
           result == round.results[k]
           outcome == IF result = None THEN "Failed" ELSE Classify(product, result)
           entry == [idx |-> k, prior |-> product, result |-> result,
                     outcome |-> outcome]
       IN  IF outcome = "Failed"
           THEN /\ sent_ok
                /\ round' = SkipFailed(round, entry)
                /\ outbox' = outbox
           ELSE IF outcome = "Unchanged"
           THEN /\ sent_ok
                /\ round' = [round EXCEPT
                               !.i = @ + 1, !.log = Append(@, entry),
                               !.updated_products = Append(@, Update(product, result))]
                /\ outbox' = outbox
           ELSE IF sent_ok
           THEN /\ round' = [round EXCEPT
                               !.i = @ + 1, !.log = Append(@, entry),
                               !.changes_found = TRUE,
                               !.updated_products = Append(@, Update(product, result))]
                /\ outbox' = Append(outbox, Message(outcome, k, TRUE, 0))
           ELSE \* send_message raised: the except branch reports and returns
                /\ round' = [round EXCEPT !.pc = "done", !.log = Append(@, entry)]
                /\ outbox' = outbox \o <<Message(outcome, k, FALSE, 0),
                                         Message("Error", 0, TRUE, 0)>>
    /\ UNCHANGED <<products_file, CACHE, clock, ticks, script_runs, last_check,
                   keyboard, last_op, eng_in, eng_out, tasks>>

\* save_products(updated_products) and the summary
BotSave(sent_ok) ==
    /\ round.pc = "loop" /\ round.runner = "bot"
    /\ round.i > Len(round.products)
    /\ products_file' = round.updated_products
    /\ round' = [round EXCEPT !.pc = "done", !.saved = <<round.updated_products>>]
    /\ IF ~round.changes_found /\ round.updated_products # <<>>
       THEN outbox' = Append(outbox, Message("Summary", 0, sent_ok,
                                             Len(round.updated_products)))
                      \o (IF sent_ok THEN <<>> ELSE <<Message("Error", 0, TRUE, 0)>>)
       ELSE sent_ok /\ outbox' = outbox
    /\ UNCHANGED <<CACHE, clock, ticks, script_runs, last_check, keyboard, last_op, eng_in,
                   eng_out, tasks>>

(***************************************************************************)
(* check_all_products (the script)                                         *)
(***************************************************************************)
ScriptRoundStart ==
    /\ round.pc = "idle"
    /\ script_runs < MaxScriptRuns
    /\ script_runs' = script_runs + 1
    /\ products_file # <<>>
    /\ outbox' = <<>>
    /\ round' = [Idle EXCEPT !.pc = "loop", !.runner = "script",
                             !.products = products_file]
    /\ UNCHANGED <<products_file, CACHE, clock, ticks, last_check, keyboard, last_op,
                   eng_in, eng_out, tasks>>

\* one iteration of the script's loop; send_telegram_message swallows a
\* failed send
ScriptLoopStep(response, sent_ok) ==
    /\ round.pc = "loop" /\ round.runner = "script"
    /\ round.i <= Len(round.products)
    /\ response \in Responses(round.products[round.i].url)
    /\ \E result \in {script_check_product(clock, round.products[round.i].url,
                                            response)} :
       LET k == round.i
           product == round.products[k]
           outcome == IF result = None THEN "Failed" ELSE Classify(product, result)
           entry == [idx |-> k, prior |-> product, result |-> result,
                     outcome |-> outcome]
       IN  IF outcome = "Failed"
           THEN /\ sent_ok
                /\ round' = [round EXCEPT
                               !.i = @ + 1, !.log = Append(@, entry),
                               !.updated_products = Append(@, product)]
                /\ outbox' = outbox
           ELSE IF outcome = "Unchanged"
           THEN /\ sent_ok
                /\ round' = [round EXCEPT
                               !.i = @ + 1, !.log = Append(@, entry),
                               !.updated_products = Append(@, Update(product, result))]
                /\ outbox' = outbox
           ELSE /\ round' = [round EXCEPT
                               !.i = @ + 1, !.log = Append(@, entry),
                               !.changes_found = TRUE,
                               !.updated_products = Append(@, Update(product, result))]
                /\ outbox' = Append(outbox, Message(outcome, k, sent_ok, 0))
    /\ UNCHANGED <<products_file, CACHE, clock, ticks, script_runs, last_check,
                   keyboard, last_op, eng_in, eng_out, tasks>>

ScriptSave(sent_ok) ==
    /\ round.pc = "loop" /\ round.runner = "script"
    /\ round.i > Len(round.products)
    /\ products_file' = round.updated_products
    /\ round' = [round EXCEPT !.pc = "done", !.saved = <<round.updated_products>>]
    /\ IF ~round.changes_found /\ round.updated_products # <<>>
       THEN outbox' = Append(outbox, Message("Summary", 0, sent_ok,
                                             Len(round.updated_products)))
       ELSE sent_ok /\ outbox' = outbox
    /\ UNCHANGED <<CACHE, clock, ticks, script_runs, last_check, keyboard, last_op, eng_in,
                   eng_out, tasks>>

\* the round's coroutine returns
RoundEnd ==
    /\ round.pc = "done"
    /\ round' = Idle
    /\ outbox' = <<>>
    /\ UNCHANGED <<products_file, CACHE, clock, ticks, script_runs, last_check,
                   keyboard, last_op, eng_in, eng_out, tasks>>

Next ==
    \/ Tick
    \/ \E url \in URLS : \E response \in Responses(url) : add_product(url, response)
    \/ BotRoundStart
    \/ \E k \in 1..Len(round.products) :
           \E response \in Responses(round.products[k].url) : BotCheckTask(k, response)
    \/ \E sent_ok \in BOOLEAN : BotLoopStep(sent_ok)
    \/ \E sent_ok \in BOOLEAN : BotSave(sent_ok)
    \/ ScriptRoundStart
    \/ \E response \in Responses(URL1), sent_ok \in BOOLEAN :
           ScriptLoopStep(response, sent_ok)
    \/ \E sent_ok \in BOOLEAN : ScriptSave(sent_ok)
    \/ RoundEnd

Spec == Init /\ [][Next]_vars

(***************************************************************************)
(* The commands that change the product store, with a record (last_op) of  *)
(* the latest one: /add, /addmulti, the remove keyboard and its buttons,   *)
(* the confirmation of remove-all.  The bot handles one update at a time,  *)
(* and check_product does not suspend, so each command is one step.  The   *)
(* rounds here are the bot's own (/check); the script only writes back the *)
(* list it loaded, and its rounds are in Spec.                             *)
(***************************************************************************)
MaxLines == 2

\* a variant of AddChecked: a record is appended whatever the check returned
AddUnchecked(products, url, c) ==
    [products |-> Append(products, [url |-> url]), cache |-> c.cache,
     result |-> c.result, outcome |-> "Added"]

\* the rest of /add (and of a line of /addmulti) after check_product returned
AddChecked(products, url, c) ==
    IF c.result = None
    THEN [products |-> products, cache |-> c.cache, result |-> None,
          outcome |-> "Failed"]
    ELSE [products |-> Append(products,
                              [url |-> url, available |-> c.result.available,
                               price |-> c.result.price,
                               last_checked |-> c.result.last_checked]),
          cache |-> c.cache, result |-> c.result, outcome |-> "Added"]

\* /add of url, and one line of /addmulti, on the list products: the list and
\* the cache afterwards, what check_product returned, and what was replied
AddUrl(products, cache, now, url, response) ==
    IF Monitored(products, url)
    THEN [products |-> products, cache |-> cache, result |-> None,
          outcome |-> "Known"]
    ELSE AddChecked(products, url, check_product(cache, now, url, response))

\* a line of /addmulti that is empty once stripped
Blank == [netloc |-> <<>>, path |-> <<>>]

\* the result of a line put before the results of the lines after it
Cons(r, rest) ==
    [products |-> rest.products, cache |-> rest.cache,
     results |-> <<r.result>> \o rest.results,
     outcomes |-> <<r.outcome>> \o rest.outcomes]

\* the loop of /addmulti from the k-th line on
RECURSIVE AddLines(_, _, _, _, _, _)
AddLinesAfter(r, now, lines, responses, k) ==
    Cons(r, AddLines(r.products, r.cache, now, lines, responses, k + 1))

AddLines(products, cache, now, lines, responses, k) ==
    IF k > Len(lines)
    THEN [products |-> products, cache |-> cache, results |-> <<>>,
          outcomes |-> <<>>]
    ELSE AddLinesAfter(
             IF lines[k] = Blank
             THEN [products |-> products, cache |-> cache, result |-> None,
                   outcome |-> "Blank"]
             ELSE AddUrl(products, cache, now, lines[k], responses[k]),
             now, lines, responses, k)

\* the record of an add command
Added(kind, lines, r) ==
    [kind |-> kind, lines |-> lines, before |-> products_file,
     results |-> r.results, outcomes |-> r.outcomes, after |-> r.products]

\* /add <url>
AddCommand(url, response) ==
    /\ BotFree
    /\ \E r \in {AddLines(products_file, CACHE, clock, <<url>>, <<response>>, 1)} :
           /\ CACHE' = r.cache
           /\ products_file' = r.products
           /\ last_op' = Added("add", <<url>>, r)
    /\ UNCHANGED <<clock, ticks, script_runs, round, outbox, last_check, keyboard,
                   eng_in, eng_out, tasks>>

\* what a fetch for a line may yield
LineResponses(line) == IF line = Blank THEN {[ok |-> FALSE]} ELSE Responses(line)

\* /addmulti followed by the lines
add_multiple_command(lines, responses) ==
    /\ BotFree
    /\ Len(lines) >= 1
    /\ \A k \in 1..Len(lines) : responses[k] \in LineResponses(lines[k])
    /\ \E r \in {AddLines(products_file, CACHE, clock, lines, responses, 1)} :
           /\ CACHE' = r.cache
           /\ products_file' = r.products
           /\ last_op' = Added("addmulti", lines, r)
    /\ UNCHANGED <<clock, ticks, script_runs, round, outbox, last_check, keyboard,
                   eng_in, eng_out, tasks>>

\* /remove and the "remove product" button: the keyboard with one button per
\* product, remove_<index>
remove_command ==
    /\ BotFree
    /\ products_file # <<>>
    /\ keyboard' = [i \in 1..Len(products_file) |-> products_file[i].url]
    /\ UNCHANGED <<products_file, CACHE, clock, ticks, script_runs, round, outbox,
                   last_check, last_op, eng_in, eng_out, tasks>>

\* products.pop(index)
Pop(products, i) ==
    SubSeq(products, 1, i - 1) \o SubSeq(products, i + 1, Len(products))

\* the i-th button of the latest remove keyboard (callback data remove_<i-1>)
RemoveButton(i) ==
    /\ BotFree
    /\ i \in 1..Len(keyboard)
    /\ \E after \in {IF i <= Len(products_file) THEN Pop(products_file, i)
                     ELSE products_file} :
           /\ products_file' = after
           /\ last_op' = [kind |-> "remove", index |-> i, shown |-> keyboard[i],
                          before |-> products_file, after |-> after]
    /\ UNCHANGED <<CACHE, clock, ticks, script_runs, round, outbox, last_check,
                   keyboard, eng_in, eng_out, tasks>>

\* the button confirm_remove_all: save_products([])
ConfirmRemoveAll ==
    /\ BotFree
    /\ products_file' = <<>>
    /\ last_op' = [kind |-> "remove_all", before |-> products_file, after |-> <<>>]
    /\ UNCHANGED <<CACHE, clock, ticks, script_runs, round, outbox, last_check,
                   keyboard, eng_in, eng_out, tasks>>

\* the lines an /addmulti message may hold
Lines == UNION {[1..n -> URLS \cup {Blank}] : n \in 1..MaxLines}

NextStore ==
    \/ \E url \in URLS : \E response \in Responses(url) : AddCommand(url, response)
    \/ \E lines \in Lines :
           \E responses \in [1..Len(lines) -> UNION {LineResponses(l) : l \in URLS \cup {Blank}}] :
               add_multiple_command(lines, responses)
    \/ remove_command
    \/ \E i \in 1..Len(keyboard) : RemoveButton(i)
    \/ ConfirmRemoveAll
    \/ BotRoundStart
    \/ \E k \in 1..Len(round.products) :
           \E response \in Responses(round.products[k].url) : BotCheckTask(k, response)
    \/ \E sent_ok \in BOOLEAN : BotLoopStep(sent_ok)
    \/ \E sent_ok \in BOOLEAN : BotSave(sent_ok)
    \/ RoundEnd

SpecStore == Init /\ [][NextStore]_vars

(***************************************************************************)
(* The bot's store commands while the script, another process on the same  *)
(* products.json, runs its round.                                          *)
(***************************************************************************)
NextShared ==
    \/ \E url \in URLS : \E response \in Responses(url) : AddCommand(url, response)
    \/ remove_command
    \/ \E i \in 1..Len(keyboard) : RemoveButton(i)
    \/ ScriptRoundStart
    \/ \E response \in Responses(URL1), sent_ok \in BOOLEAN :
           ScriptLoopStep(response, sent_ok)
    \/ \E sent_ok \in BOOLEAN : ScriptSave(sent_ok)
    \/ RoundEnd

SpecShared == Init /\ [][NextShared]_vars

(***************************************************************************)
(* One product over consecutive successful checks: the record /add makes,  *)
(* then the body of the round's loop (the if / elif and product.update)    *)
(* once per round, each check by either runner with any page.  eng_out     *)
(* holds the record and, per round, the record before, the result and the  *)
(* notification decided.                                                   *)
(***************************************************************************)
MaxChecks == 2

\* products.append({...}) of /add
NewRecord(url, result) ==
    [url |-> url, available |-> result.available, price |-> result.price,
     last_checked |-> result.last_checked]

InitHistory ==
    /\ products_file = <<>>
    /\ CACHE = EmptyDict
    /\ clock = 0
    /\ ticks = 0
    /\ script_runs = 0
    /\ round = Idle
    /\ outbox = <<>>
    /\ last_check = NoCheck
    /\ keyboard = <<>>
    /\ last_op = NoOp
    /\ eng_in = [url |-> URL1]
    /\ eng_out \in {[record |-> NewRecord(URL1, MakeResult(BOT_SYMBOL, URL1, soup, 0)),
                     history |-> <<>>] : soup \in PagesOf(URL1)}
    /\ tasks = NoTasks

\* the loop body for the product and the result of its check
LoopBody(product, result) ==
    [record |-> Update(product, result),
     history |-> Append(eng_out.history,
                        [prior |-> product, result |-> result,
                         outcome |-> Classify(product, result)])]

\* a round checks the product: symbol is the runner's copy, soup the page
CheckAgain(symbol, soup) ==
    /\ Len(eng_out.history) < MaxChecks
    /\ eng_out' = LoopBody(eng_out.record,
                           MakeResult(symbol, eng_in.url, soup,
                                      Len(eng_out.history) + 1))
    /\ UNCHANGED <<products_file, CACHE, clock, ticks, script_runs, round, outbox,
                   last_check, keyboard, last_op, eng_in, tasks>>

SpecHistory ==
    InitHistory
    /\ [][\E symbol \in {BOT_SYMBOL, SCRIPT_SYMBOL} :
              \E soup \in PagesOf(eng_in.url) : CheckAgain(symbol, soup)]_vars

(***************************************************************************)
(* asyncio.gather over the check_product coroutines of one batch, with     *)
(* check_product in its steps: the cache test, the fetch, the extraction   *)
(* and cache write.  The event loop is single-threaded: a task that has    *)
(* started runs until it suspends at an await or returns, and only then    *)
(* may another task run.  trace records the accesses to CACHE.             *)
(***************************************************************************)
MaxTasks == 2

\* the url lists of a batch: the urls of a store
BatchUrls ==
    {urls \in UNION {[1..n -> URLS] : n \in 1..MaxTasks} :
        \A i, j \in 1..Len(urls) : urls[i] = urls[j] => i = j}

\* the cache at the start of the batch: empty, or holding an earlier result
BatchCaches ==
    {EmptyDict,
     CachePut(EmptyDict, URL1, <<0, MakeResult(BOT_SYMBOL, URL1, PageInStock10, 0)>>)}

\* tasks = [check_product(product['url']) for product in products]
StartTasks(urls) ==
    [urls |-> urls, pc |-> [k \in 1..Len(urls) |-> "ready"],
     soup |-> [k \in 1..Len(urls) |-> <<>>],
     results |-> [k \in 1..Len(urls) |-> None],
     running |-> 0, trace |-> <<>>]

InitBatch ==
    /\ products_file = <<>>
    /\ CACHE \in BatchCaches
    /\ clock \in {CACHE_DURATION - 1, CACHE_DURATION}
    /\ ticks = 0
    /\ script_runs = 0
    /\ round = Idle
    /\ outbox = <<>>
    /\ last_check = NoCheck
    /\ keyboard = <<>>
    /\ last_op = NoOp
    /\ eng_in = EmptyDict
    /\ eng_out = EmptyDict
    /\ tasks \in {StartTasks(urls) : urls \in BatchUrls}

\* a variant of Suspends: the fetch is awaited
SuspendsAtFetch(pc) == pc = "fetch"

\* whether check_product has an await at the position pc: its body has none
Suspends(pc) == FALSE

\* the task the event loop runs after task k has reached pc: k itself unless
\* it returned or suspended
Running(k, pc) == IF pc = "done" \/ Suspends(pc) THEN 0 ELSE k

\* the event loop may run a step of task k
Runnable(k) == k \in 1..Len(tasks.urls) /\ tasks.running \in {0, k}

\* `if url in CACHE: ... if age < CACHE_DURATION: return cache_data`
TaskTest(k) ==
    /\ Runnable(k)
    /\ tasks.pc[k] = "ready"
    /\ \E hit \in {/\ tasks.urls[k] \in DOMAIN CACHE
                   /\ CacheFresh(CACHE[tasks.urls[k]], clock)} :
       \E pc \in {IF hit THEN "done" ELSE "fetch"} :
           tasks' = [tasks EXCEPT
                       !.pc[k] = pc,
                       !.results[k] = IF hit THEN CACHE[tasks.urls[k]][2] ELSE None,
                       !.running = Running(k, pc),
                       !.trace = Append(@, [task |-> k, op |-> "test"])]
    /\ UNCHANGED <<products_file, CACHE, clock, ticks, script_runs, round, outbox,
                   last_check, keyboard, last_op, eng_in, eng_out>>

\* session.get and raise_for_status: a failure ends in the except branch
TaskFetch(k, response) ==
    /\ Runnable(k)
    /\ tasks.pc[k] = "fetch"
    /\ \E pc \in {IF response.ok THEN "fetched" ELSE "done"} :
           tasks' = [tasks EXCEPT
                       !.pc[k] = pc,
                       !.soup[k] = IF response.ok THEN response.soup ELSE <<>>,
                       !.running = Running(k, pc)]
    /\ UNCHANGED <<products_file, CACHE, clock, ticks, script_runs, round, outbox,
                   last_check, keyboard, last_op, eng_in, eng_out>>

\* the extraction, CACHE[url] = (now, result) and the return
TaskWrite(k) ==
    /\ Runnable(k)
    /\ tasks.pc[k] = "fetched"
    /\ \E c \in {CheckDone(CACHE, clock, tasks.urls[k],
                           MakeResult(BOT_SYMBOL, tasks.urls[k], tasks.soup[k], clock))} :
           /\ CACHE' = c.cache
           /\ tasks' = [tasks EXCEPT
                          !.pc[k] = "done",
                          !.results[k] = c.result,
                          !.running = Running(k, "done"),
                          !.trace = IF c.result = None THEN @
                                    ELSE Append(@, [task |-> k, op |-> "write"])]
    /\ UNCHANGED <<products_file, clock, ticks, script_runs, round, outbox,
                   last_check, keyboard, last_op, eng_in, eng_out>>

NextBatch ==
    \/ \E k \in 1..MaxTasks : TaskTest(k)
    \/ \E k \in 1..MaxTasks : Runnable(k) /\
           \E response \in Responses(tasks.urls[k]) : TaskFetch(k, response)
    \/ \E k \in 1..MaxTasks : TaskWrite(k)

SpecBatch == InitBatch /\ [][NextBatch]_vars

(***************************************************************************)
(* The bot's check_product on its own: calls for any url, at any time, at  *)
(* a clock that advances in steps that reach both sides of the cache       *)
(* lifetime.  last_check keeps the latest call: its arguments, the cache   *)
(* and the entry for url before it, whether the network answered, whether  *)
(* session.get was called and what was returned.                           *)
(***************************************************************************)
MaxCacheTicks == 3

TickSteps == {1, CACHE_DURATION - 1}

TickBy(step) ==
    /\ ticks < MaxCacheTicks
    /\ clock' = clock + step
    /\ ticks' = ticks + 1
    /\ UNCHANGED <<products_file, CACHE, script_runs, round, outbox, last_check,
                   keyboard, last_op, eng_in, eng_out, tasks>>

Call(url, now, cache, response, c) ==
    [called |-> TRUE, url |-> url, now |-> now, before |-> cache,
     entry |-> IF url \in DOMAIN cache THEN <<cache[url]>> ELSE <<>>,
     net_ok |-> response.ok, fetched |-> c.fetched, result |-> c.result]

CheckCall(url, response) ==
    /\ \E c \in {check_product(CACHE, clock, url, response)} :
           /\ CACHE' = c.cache
           /\ last_check' = Call(url, clock, CACHE, response, c)
    /\ UNCHANGED <<products_file, clock, ticks, script_runs, round, outbox,
                   keyboard, last_op, eng_in, eng_out, tasks>>

NextCache ==
    \/ \E step \in TickSteps : TickBy(step)
    \/ \E url \in URLS : \E response \in Responses(url) : CheckCall(url, response)

SpecCache == Init /\ [][NextCache]_vars

(***************************************************************************)
(* The extraction part of check_product on its own (lines 144-204 of the   *)
(* bot, 114-170 of the script): for a site configuration with two          *)
(* availability selectors and two price selectors, and every page of up to *)
(* MaxElements elements, what the two cascades do.                         *)
(***************************************************************************)
MaxElements == 3

EngineConfig ==
    [availability_selectors |-> <<"a1", "a2">>,
     in_stock_texts |-> <<InStockText>>,
     out_of_stock_texts |-> <<SoldOutText>>,
     price_selectors |-> <<"p1", "p2">>]

EngineElements ==
    { El({"a1"}, <<"I", "n", " ", "S", "t", "o", "c", "k">>),
      El({"a2"}, <<"n", "o", "t", " ", "i", "n", " ", "s", "t", "o", "c", "k", ":",
                   " ", "s", "o", "l", "d", " ", "o", "u", "t">>),
      El({"a1"}, <<"s", "o", "o", "n">>),
      El({"a2"}, <<"S", "o", "l", "d", " ", " ", "o", "u", "t">>),
      El({"a1", "a2"}, <<"s", "o", "o", "n">>),
      El({}, <<"s", "o", "l", "d", " ", "o", "u", "t">>),
      El({"p1"}, <<"U20AC", " ", "1", "0", ",", "0", "0">>),
      El({"p1"}, <<"c", "a", "l", "l">>),
      El({"p2"}, <<"1", "2", ".", "5", " ", "E", "U", "R">>),
      El({}, <<"7", "U20AC">>) }

EnginePages ==
    UNION {[1..n -> EngineElements] : n \in 0..MaxElements}

\* a configuration whose second availability selector is not CSS
MalformedConfig ==
    [availability_selectors |-> <<"a1", "[">>,
     in_stock_texts |-> <<InStockText>>,
     out_of_stock_texts |-> <<SoldOutText>>]

\* the configurations get_site_config may resolve: one with selectors and
\* phrases, the empty one, one with a selector that is not CSS
EngineConfigs == {EngineConfig, EmptyDict, MalformedConfig}

EngineInputs ==
    [symbol : {BOT_SYMBOL, SCRIPT_SYMBOL}, config : EngineConfigs,
     soup : EnginePages]

InitEngine ==
    /\ products_file = <<>>
    /\ CACHE = EmptyDict
    /\ clock = 0
    /\ ticks = 0
    /\ script_runs = 0
    /\ round = Idle
    /\ outbox = <<>>
    /\ last_check = NoCheck
    /\ keyboard = <<>>
    /\ last_op = NoOp
    /\ eng_in \in EngineInputs
    /\ eng_out = EmptyDict
    /\ tasks = NoTasks

\* the two cascades run on the page
RunExtract ==
    /\ eng_out = EmptyDict
    /\ eng_out' = Extract(eng_in.symbol, eng_in.config, eng_in.soup)
    /\ UNCHANGED <<products_file, CACHE, clock, ticks, script_runs, round, outbox,
                   last_check, keyboard, last_op, eng_in, tasks>>

SpecEngine == InitEngine /\ [][RunExtract]_vars

(***************************************************************************)
(* get_site_config on its own: the configuration file and the url are      *)
(* drawn from bounded sets, and urlparse is computed from the text of the  *)
(* url as urllib.parse.urlsplit computes it.                               *)
(***************************************************************************)
MaxKeys == 3

\* str.find of one character, 0 when absent
Find(text, c) ==
    IF \E i \in 1..Len(text) : text[i] = c
    THEN CHOOSE i \in 1..Len(text) : text[i] = c /\ \A j \in 1..(i - 1) : text[j] # c
    ELSE 0

AsciiLetter(c) == \E i \in 1..26 : UpperCase[i] = c \/ LowerCase[i] = c

\* urlsplit's scheme_chars
IsSchemeChar(c) == AsciiLetter(c) \/ IsDigit(c) \/ c \in {"+", "-", "."}

\* the url without its scheme: the text after the first ':' when what stands
\* before it is a scheme
AfterScheme(url, colon) ==
    IF /\ colon > 1
       /\ AsciiLetter(url[1])
       /\ \A j \in 1..(colon - 1) : IsSchemeChar(url[j])
    THEN SubSeq(url, colon + 1, Len(url))
    ELSE url

\* _splitnetloc(url, 2): the text between '//' and the first of '/', '?', '#'
SplitNetloc(rest) ==
    IF \E i \in 1..Len(rest) : rest[i] \in {"/", "?", "#"}
    THEN SubSeq(rest, 1, (CHOOSE i \in 1..Len(rest) :
                              /\ rest[i] \in {"/", "?", "#"}
                              /\ \A j \in 1..(i - 1) : rest[j] \notin {"/", "?", "#"}) - 1)
    ELSE rest

\* the netloc of a url without its scheme: empty unless the text starts '//'
NetlocOf(url) ==
    IF Len(url) >= 2 /\ url[1] = "/" /\ url[2] = "/"
    THEN SplitNetloc(SubSeq(url, 3, Len(url)))
    ELSE <<>>

\* urlsplit raises ValueError("Invalid IPv6 URL") for a netloc with one of
\* '[' and ']' and not the other
Parsed(netloc) ==
    [netloc |-> netloc,
     raised |-> (Find(netloc, "[") > 0) # (Find(netloc, "]") > 0)]

urlparse(url) == Parsed(NetlocOf(AfterScheme(url, Find(url, ":"))))

\* get_site_config(url) with the content of the configuration file: the
\* configuration returned, or the exception of urlparse
Resolved(configs, parsed) ==
    IF parsed.raised THEN [raised |-> TRUE]
    ELSE [raised |-> FALSE, config |-> get_site_config(configs, parsed)]

\* the keys of the configuration file
ResolveKeys ==
    {<<"s", "h", ".", "i", "t">>, <<"i", "t">>, <<"u">>, DefaultKey}

\* json.load keeps the order of the file, and a dict has each key once; the
\* configuration of a key names the key, which tells the configurations apart
ResolveConfigs ==
    {[i \in 1..Len(keys) |-> [key |-> keys[i], config |-> [in_stock_texts |-> <<keys[i]>>]]] :
        keys \in {ks \in UNION {[1..n -> ResolveKeys] : n \in 0..MaxKeys} :
                     \A i, j \in 1..Len(ks) : ks[i] = ks[j] => i = j}}

\* h://Sh.it/1, h://b.de/1, h://u@b.de/1, h://b.de:8/1, Sh.it/1, h://[/1
ResolveUrls ==
    {<<"h", ":", "/", "/", "S", "h", ".", "i", "t", "/", "1">>,
     <<"h", ":", "/", "/", "b", ".", "d", "e", "/", "1">>,
     <<"h", ":", "/", "/", "u", "@", "b", ".", "d", "e", "/", "1">>,
     <<"h", ":", "/", "/", "b", ".", "d", "e", ":", "8", "/", "1">>,
     <<"S", "h", ".", "i", "t", "/", "1">>,
     <<"h", ":", "/", "/", "[", "/", "1">>}

InitResolve ==
    /\ products_file = <<>>
    /\ CACHE = EmptyDict
    /\ clock = 0
    /\ ticks = 0
    /\ script_runs = 0
    /\ round = Idle
    /\ outbox = <<>>
    /\ last_check = NoCheck
    /\ keyboard = <<>>
    /\ last_op = NoOp
    /\ eng_in \in [configs : ResolveConfigs, url : ResolveUrls]
    /\ eng_out = EmptyDict
    /\ tasks = NoTasks

RunResolve ==
    /\ eng_out = EmptyDict
    /\ eng_out' = Resolved(eng_in.configs, urlparse(eng_in.url))
    /\ UNCHANGED <<products_file, CACHE, clock, ticks, script_runs, round, outbox,
                   last_check, keyboard, last_op, eng_in, tasks>>

SpecResolve == InitResolve /\ [][RunResolve]_vars

(***************************************************************************)
(* extract_price on its own, in the bot's copy and in the script's: the    *)
(* text is drawn from texts that hold the euro sign before an amount with  *)
(* two decimals, and from texts made of two priced pieces.                 *)
(***************************************************************************)
\* the euro sign, as a page holds it
EuroSign == <<"U20AC">>

\* a text with the euro sign before an amount of two decimals: what stands
\* before, the sign, blanks, the amount with either decimal mark, what stands
\* after; amount keeps the digits of the amount
SymbolAmountInputs ==
    {[symbol |-> symbol,
      text |-> b \o EuroSign \o l \o w \o <<m>> \o d \o a,
      amount |-> <<w, d>>] :
        symbol \in {BOT_SYMBOL, SCRIPT_SYMBOL},
        b \in {<<>>, <<"x", " ">>, <<"7", " ">>},
        l \in {<<>>, <<" ">>},
        w \in {<<"1", "2">>, <<"0">>},
        m \in {".", ","},
        d \in {<<"5", "0">>, <<"9", "9">>},
        a \in {<<>>, <<" ", "x">>, <<" ", "9">>}}

\* priced pieces, one per pattern and currency sign: the euro sign and the
\* three characters of the bot's file
Pieces ==
    {EuroSign \o <<"2", ".", "0", "0">>,
     <<"3", ".", "0", "0">> \o EuroSign,
     BOT_SYMBOL \o <<"2", ".", "5", "0">>,
     <<"3", ".", "5", "0">> \o BOT_SYMBOL,
     <<"e", "u", "r", "4", ",", "0", "0">>,
     <<"5", ".", "0", "0", "E", "U", "R">>,
     <<"6", ".", "0", "0">>,
     <<"x">>}

PriorityInputs ==
    {[symbol |-> symbol, text |-> first \o <<" ">> \o second, amount |-> <<>>] :
        symbol \in {BOT_SYMBOL, SCRIPT_SYMBOL}, first \in Pieces, second \in Pieces}

\* None, the empty text, and texts in which no pattern matches: blanks, a
\* word, an amount without decimals or with one, a sign or a code alone
NoPriceTexts ==
    {NoneStr, <<>>, <<" ">>, <<"x">>, <<"1", "2">>, <<"1", "2", ".", "5">>,
     <<"1", ",", "5", " ", "x">>, <<".", "5", "0">>, <<"E", "U", "R">>,
     EuroSign, <<"1", " ", "2">>}

NoPriceInputs ==
    {[symbol |-> symbol, text |-> text, amount |-> <<>>] :
        symbol \in {BOT_SYMBOL, SCRIPT_SYMBOL}, text \in NoPriceTexts}

InitPrice ==
    /\ products_file = <<>>
    /\ CACHE = EmptyDict
    /\ clock = 0
    /\ ticks = 0
    /\ script_runs = 0
    /\ round = Idle
    /\ outbox = <<>>
    /\ last_check = NoCheck
    /\ keyboard = <<>>
    /\ last_op = NoOp
    /\ eng_in \in SymbolAmountInputs \cup PriorityInputs \cup NoPriceInputs
    /\ eng_out = EmptyDict
    /\ tasks = NoTasks

RunPrice ==
    /\ eng_out = EmptyDict
    /\ eng_out' = [price |-> extract_price(eng_in.symbol, eng_in.text)]
    /\ UNCHANGED <<products_file, CACHE, clock, ticks, script_runs, round, outbox,
                   last_check, keyboard, last_op, eng_in, tasks>>

SpecPrice == InitPrice /\ [][RunPrice]_vars

(***************************************************************************)
(* clean_text on its own, applied once and twice to None and to every text *)
(* of up to MaxTextLen characters.                                         *)
(***************************************************************************)
MaxTextLen == 5

CleanTexts ==
    {NoneStr} \cup UNION {[1..n -> {"A", "b", " ", "TAB"}] : n \in 0..MaxTextLen}

InitClean ==
    /\ products_file = <<>>
    /\ CACHE = EmptyDict
    /\ clock = 0
    /\ ticks = 0
    /\ script_runs = 0
    /\ round = Idle
    /\ outbox = <<>>
    /\ last_check = NoCheck
    /\ keyboard = <<>>
    /\ last_op = NoOp
    /\ eng_in \in [text : CleanTexts]
    /\ eng_out = EmptyDict
    /\ tasks = NoTasks

RunClean ==
    /\ eng_out = EmptyDict
    /\ \E once \in {clean_text(eng_in.text)} :
           eng_out' = [once |-> once, twice |-> clean_text(once)]
    /\ UNCHANGED <<products_file, CACHE, clock, ticks, script_runs, round, outbox,
                   last_check, keyboard, last_op, eng_in, tasks>>

SpecClean == InitClean /\ [][RunClean]_vars

(***************************************************************************)
(* Properties of the check rounds, checked under Spec.                     *)
(***************************************************************************)
\* the round has returned after save_products
RoundSaved == round.pc = "done" /\ round.saved # <<>>

\* record is one of the records of the list file
InFile(record, file) == \E j \in 1..Len(file) : file[j] = record

\* the notifications of a change
ChangeKinds == {"StateChanged", "PriceChanged"}

\* C1: for every product of a check round whose check fails, the product's
\* prior record is still in the saved store after the round, unchanged: a
\* check round removes no record from the store.
C1_FailedCheckKeepsRecord ==
    RoundSaved =>
        \A e \in 1..Len(round.log) :
            round.log[e].outcome = "Failed" => InFile(round.log[e].prior, products_file)

\* C2: when the prior record has an 'available' field that differs from the
\* result's, the outcome is StateChanged and no PriceChanged is emitted for
\* that product in that round, whether or not the price differs too.
C2_StateChangeWins ==
    \A e \in 1..Len(round.log) :
        LET l == round.log[e]
        IN  (/\ l.result # None
             /\ "available" \in DOMAIN l.prior
             /\ l.prior.available # l.result.available)
            => /\ l.outcome = "StateChanged"
               /\ ~\E m \in 1..Len(outbox) :
                      outbox[m].kind = "PriceChanged" /\ outbox[m].idx = l.idx

\* a product whose availability and price both changed was reported as a
\* change of state
C2_Witness ==
    \E e \in 1..Len(round.log) :
        LET l == round.log[e]
        IN  /\ l.result # None
            /\ "available" \in DOMAIN l.prior
            /\ l.prior.available # l.result.available
            /\ GetPrice(l.prior) # NoneStr
            /\ l.result.price # NoneStr
            /\ GetPrice(l.prior) # l.result.price
            /\ \E m \in 1..Len(outbox) :
                   outbox[m].kind = "StateChanged" /\ outbox[m].idx = l.idx

\* C3: PriceChanged is the outcome exactly when there is no change of state
\* and the prior price and the result's price are both present and unequal;
\* when a price is absent and the availability is unchanged, the outcome is
\* Unchanged.
C3_PriceChangedExactly ==
    \A e \in 1..Len(round.log) :
        LET l == round.log[e]
            state_changed == /\ "available" \in DOMAIN l.prior
                             /\ l.prior.available # l.result.available
            both_present == GetPrice(l.prior) # NoneStr /\ l.result.price # NoneStr
        IN  l.result # None =>
                /\ l.outcome = "PriceChanged"
                       <=> (/\ ~state_changed
                            /\ both_present
                            /\ GetPrice(l.prior) # l.result.price)
                /\ (~state_changed /\ ~both_present) => l.outcome = "Unchanged"
                /\ \A m \in 1..Len(outbox) :
                       (outbox[m].kind = "PriceChanged" /\ outbox[m].idx = l.idx)
                           => l.outcome = "PriceChanged"

\* a price change was notified, and a product that gained a price with its
\* availability unchanged counted as unchanged
C3_Witness ==
    /\ \E e \in 1..Len(round.log) :
           /\ round.log[e].outcome = "PriceChanged"
           /\ \E m \in 1..Len(outbox) :
                  outbox[m].kind = "PriceChanged" /\ outbox[m].idx = round.log[e].idx
    /\ \E e \in 1..Len(round.log) :
           /\ round.log[e].result # None
           /\ GetPrice(round.log[e].prior) = NoneStr
           /\ round.log[e].result.price # NoneStr
           /\ round.log[e].outcome = "Unchanged"

\* every send of a change notification succeeded
ChangesSent == \A m \in 1..Len(outbox) : outbox[m].kind \in ChangeKinds => outbox[m].ok

C5_NotificationsInInputOrder ==
    \A m, n \in 1..Len(outbox) :
        (/\ m < n
         /\ outbox[m].kind \in ChangeKinds
         /\ outbox[n].kind \in ChangeKinds)
        => outbox[m].idx < outbox[n].idx

\* the second product's check ended first, and both changes were notified,
\* the first product's first
C5_Witness ==
    /\ round.runner = "bot"
    /\ round.completed = <<2, 1>>
    /\ Len(outbox) >= 2
    /\ outbox[1].kind \in ChangeKinds /\ outbox[1].idx = 1
    /\ outbox[2].kind \in ChangeKinds /\ outbox[2].idx = 2

(***************************************************************************)
(* Properties of the cache of check_product, checked under SpecCache.      *)
(***************************************************************************)
\* the latest call found an entry for its url, of this age in seconds
EntryAge == last_check.now - last_check.entry[1][1]
HadEntry == last_check.called /\ last_check.entry # <<>>

\* C6: a check made while the cache holds an entry for the url that is less
\* than 60 seconds old fetches nothing and returns the stored result
\* unchanged, so it succeeds even when the network is unavailable.
C6_FreshEntryServed ==
    (HadEntry /\ EntryAge < 60)
    => /\ ~last_check.fetched
       /\ last_check.result = last_check.entry[1][2]
       /\ last_check.result # None
       /\ CACHE = last_check.before

\* a call with the network down was answered from an entry 59 seconds old
C6_Witness ==
    /\ HadEntry
    /\ EntryAge = 59
    /\ ~last_check.net_ok
    /\ ~last_check.fetched
    /\ last_check.result = last_check.entry[1][2]

\* C7: when the fetch of a check fails, the check returns the failure signal
\* (None, no partial result) and the cache is exactly as before the call.
C7_FailedFetchLeavesCache ==
    (last_check.called /\ last_check.fetched /\ ~last_check.net_ok)
    => /\ last_check.result = None
       /\ CACHE = last_check.before

\* a fetch failed while the cache held a stale entry for the url and an
\* entry for the other url: both are still there
C7_Witness ==
    /\ HadEntry
    /\ last_check.fetched
    /\ ~last_check.net_ok
    /\ last_check.result = None
    /\ DOMAIN CACHE = URLS
    /\ CACHE = last_check.before

\* C8: an entry is served only while it is less than 60 seconds old: a check
\* made at 60 seconds or more fetches and, on success, replaces the entry by
\* the new result with the new timestamp; a stale result is never returned.
C8_StaleEntryRefetched ==
    HadEntry =>
        /\ ~last_check.fetched => EntryAge < 60
        /\ EntryAge >= 60 =>
               /\ last_check.fetched
               /\ last_check.net_ok =>
                      /\ last_check.result # None
                      /\ last_check.result.last_checked = last_check.now
                      /\ CACHE[last_check.url] = <<last_check.now, last_check.result>>
               /\ ~last_check.net_ok => last_check.result = None

\* a check made exactly 60 seconds after the entry was written fetched and
\* replaced the entry
C8_Witness ==
    /\ HadEntry
    /\ EntryAge = 60
    /\ last_check.fetched
    /\ last_check.net_ok
    /\ CACHE[last_check.url] = <<last_check.now, last_check.result>>
    /\ CACHE[last_check.url] # last_check.entry[1]

(***************************************************************************)
(* Properties of the two cascades, checked under SpecEngine.               *)
(***************************************************************************)
\* the two cascades have run to their end
EngineDone == eng_out # EmptyDict /\ ~eng_out.raised

\* the k-th availability selector matched an element; its first element's
\* text gave a verdict
AvailMatched(k) ==
    select(eng_in.soup, Get(eng_in.config, "availability_selectors")[k]) # <<>>
AvailResolved(k) ==
    ElementVerdict(eng_in.config,
                   select(eng_in.soup,
                          Get(eng_in.config, "availability_selectors")[k])) # "None"

\* the k-th price selector matched an element; its first element's text held
\* a price
PriceMatched(k) ==
    select(eng_in.soup, Get(eng_in.config, "price_selectors")[k]) # <<>>
PriceResolved(k) ==
    ~Falsy(FirstPrice(eng_in.symbol,
                      Texts(select(eng_in.soup,
                                   Get(eng_in.config, "price_selectors")[k])),
                      TRUE))

\* the selectors 1..k, in order
UpTo(k) == [j \in 1..k |-> j]

\* C9: the availability selectors are tried in configuration order; the first
\* selector whose first matched element's text matches an indicator phrase
\* decides the verdict and ends the scan; a selector whose element matches no
\* phrase passes on to the next selector; the text of the whole page is
\* tested only when no selector gave a verdict.
C9_AvailabilityCascade ==
    EngineDone =>
        LET n == Len(Get(eng_in.config, "availability_selectors"))
            resolved == {k \in 1..n : AvailResolved(k)}
        IN  IF resolved = {}
            THEN /\ eng_out.avail_tried = UpTo(n)
                 /\ eng_out.page_tested
            ELSE LET first == CHOOSE k \in resolved : \A j \in resolved : k <= j
                 IN  /\ eng_out.avail_tried = UpTo(first)
                     /\ ~eng_out.page_tested
                     /\ eng_out.available =
                            ElementVerdict(
                                eng_in.config,
                                select(eng_in.soup,
                                       Get(eng_in.config,
                                           "availability_selectors")[first]))

\* the first selector matched an element whose text gave no verdict, the
\* second selector gave one, and the page text was not tested
C9_Witness ==
    /\ EngineDone
    /\ Len(Get(eng_in.config, "availability_selectors")) = 2
    /\ AvailMatched(1) /\ ~AvailResolved(1)
    /\ AvailResolved(2)
    /\ eng_out.avail_tried = <<1, 2>>
    /\ eng_out.available = "False"
    /\ ~eng_out.page_tested

\* C10 as stated: the first selector (availability or price) that matches an
\* element wins, whether or not its text resolves; once a selector matched
\* an element, no later selector is consulted.
C10_FirstMatchedWins ==
    EngineDone =>
        /\ \A k \in 1..Len(eng_out.avail_tried) :
               AvailMatched(eng_out.avail_tried[k]) => k = Len(eng_out.avail_tried)
        /\ \A k \in 1..Len(eng_out.price_tried) :
               PriceMatched(eng_out.price_tried[k]) => k = Len(eng_out.price_tried)

\* C10 amended: the first selector (availability or price) whose first
\* matched element's text resolves (a verdict, a price) wins and no later
\* selector is consulted; a selector that matched an element whose text does
\* not resolve passes on to the next selector.
C10_FirstResolvedWins ==
    EngineDone =>
        /\ \A k \in 1..Len(eng_out.avail_tried) :
               /\ eng_out.avail_tried[k] = k
               /\ AvailResolved(k) => k = Len(eng_out.avail_tried)
               /\ k = Len(eng_out.avail_tried) =>
                      \/ AvailResolved(k)
                      \/ k = Len(Get(eng_in.config, "availability_selectors"))
        /\ \A k \in 1..Len(eng_out.price_tried) :
               /\ eng_out.price_tried[k] = k
               /\ PriceResolved(k) => k = Len(eng_out.price_tried)
               /\ k = Len(eng_out.price_tried) =>
                      \/ PriceResolved(k)
                      \/ k = Len(Get(eng_in.config, "price_selectors"))

\* the first price selector matched an element without a price and the second
\* selector's element gave the price
C10_Witness ==
    /\ EngineDone
    /\ Len(Get(eng_in.config, "price_selectors")) = 2
    /\ PriceMatched(1) /\ ~PriceResolved(1)
    /\ PriceResolved(2)
    /\ eng_out.price_tried = <<1, 2>>
    /\ eng_out.price = eng_in.symbol \o <<"1", "2", ".", "5", "0">>

\* text contains one of the phrases, both normalized
HasPhrase(phrases, text) ==
    \E i \in 1..Len(phrases) : Contains(clean_text(phrases[i]), clean_text(text))

\* the text of the first element of the k-th availability selector
AvailText(k) ==
    select(eng_in.soup, Get(eng_in.config, "availability_selectors")[k])[1].text

\* the texts the availability cascade evaluated
EvaluatedTexts ==
    {AvailText(eng_out.avail_tried[k]) :
         k \in {j \in 1..Len(eng_out.avail_tried) : AvailMatched(eng_out.avail_tried[j])}}
    \cup (IF eng_out.page_tested THEN {get_text(eng_in.soup)} ELSE {})

\* C11: whenever a text the cascade evaluated (the text of a matched
\* selector's element, or the text of the whole page) contains an
\* out_of_stock_texts phrase after normalization, the check yields
\* available = false, also when the text contains an in_stock_texts phrase.
C11_OutOfStockWins ==
    EngineDone =>
        \A text \in EvaluatedTexts :
            HasPhrase(Get(eng_in.config, "out_of_stock_texts"), text)
                => eng_out.available = "False"

\* a selector's element held both an in-stock and an out-of-stock phrase and
\* the verdict was false
C11_Witness ==
    /\ EngineDone
    /\ ~eng_out.page_tested
    /\ \E text \in EvaluatedTexts :
           /\ HasPhrase(Get(eng_in.config, "out_of_stock_texts"), text)
           /\ HasPhrase(Get(eng_in.config, "in_stock_texts"), text)
    /\ eng_out.available = "False"

\* C12: a successful check returns available as a boolean, never unknown;
\* when no selector text and no page text matches an indicator phrase (also
\* when the configuration is empty), available is true.
C12_DefaultAvailable ==
    EngineDone =>
        /\ eng_out.available \in {"True", "False"}
        /\ (\A text \in EvaluatedTexts \cup {get_text(eng_in.soup)} :
                /\ ~HasPhrase(Get(eng_in.config, "in_stock_texts"), text)
                /\ ~HasPhrase(Get(eng_in.config, "out_of_stock_texts"), text))
           => eng_out.available = "True" /\ eng_out.defaulted

\* the configuration was empty, the page was not, and the product counts as
\* available
C12_Witness ==
    /\ EngineDone
    /\ eng_in.config = EmptyDict
    /\ eng_in.soup # <<>>
    /\ eng_out.defaulted
    /\ eng_out.available = "True"

\* C13 as stated: once the page is fetched, every configuration and page
\* yield a result, never the failure signal.
C13_OnlyFetchFails ==
    eng_out # EmptyDict => Result(eng_out, 0) # None

(***************************************************************************)
(* The product store under the store commands (SpecStore).                 *)
(***************************************************************************)
\* the records of a list that carry the url
RecordsOf(products, url) ==
    SelectSeq(products, LAMBDA p : p.url = url)

\* C14: whatever /add, /addmulti, remove buttons, remove-all and check rounds
\* have run, no two records of the product store have the same url.
C14_UrlsUnique ==
    \A i, j \in 1..Len(products_file) :
        products_file[i].url = products_file[j].url => i = j

\* an /addmulti that named the same url on two lines, both fetched, has left
\* one record of it in the store
C14_Witness ==
    /\ last_op.kind = "addmulti"
    /\ Len(last_op.lines) = 2
    /\ last_op.lines[1] = last_op.lines[2]
    /\ last_op.before = <<>>
    /\ last_op.outcomes = <<"Added", "Known">>
    /\ products_file = last_op.after
    /\ Len(RecordsOf(products_file, last_op.lines[1])) = 1

\* the latest store command was /add or /addmulti
WasAdd == last_op.kind \in {"add", "addmulti"}

\* check_product returned a result for some line of the command that named url
CheckSucceeded(url) ==
    \E k \in 1..Len(last_op.lines) :
        last_op.lines[k] = url /\ last_op.results[k] # None

\* the record that /add makes of a url and of the result of its check
RecordOf(url, result) ==
    [url |-> url, available |-> result.available, price |-> result.price,
     last_checked |-> result.last_checked]

\* C15: /add and /addmulti create a record only after a check that succeeded:
\* a url that was in the store already, or of which no check succeeded, has
\* the same records after the command as before it, and every record the
\* command created holds the result of a successful check of its url.
C15_RecordOnlyAfterCheck ==
    WasAdd =>
        /\ \A url \in URLS :
               Monitored(last_op.before, url) \/ ~CheckSucceeded(url)
                   => RecordsOf(last_op.after, url) = RecordsOf(last_op.before, url)
        /\ Len(last_op.after) >= Len(last_op.before)
        /\ SubSeq(last_op.after, 1, Len(last_op.before)) = last_op.before
        /\ \A i \in (Len(last_op.before) + 1)..Len(last_op.after) :
               \E k \in 1..Len(last_op.lines) :
                   /\ last_op.results[k] # None
                   /\ last_op.after[i] = RecordOf(last_op.lines[k], last_op.results[k])

\* an /addmulti named a url of the store and a url whose fetch failed, and the
\* store is as it was
C15_Witness ==
    /\ last_op.kind = "addmulti"
    /\ Len(last_op.lines) = 2
    /\ Monitored(last_op.before, last_op.lines[1])
    /\ ~Monitored(last_op.before, last_op.lines[2])
    /\ last_op.lines[2] # Blank
    /\ last_op.results = <<None, None>>
    /\ last_op.after = last_op.before
    /\ products_file = last_op.after

(***************************************************************************)
(* The store after a round (Spec).                                         *)
(***************************************************************************)
\* the record holds the values of the result
HoldsResult(record, result) ==
    /\ record.available = result.available
    /\ record.price = result.price
    /\ record.last_checked = result.last_checked

MidCheck(k) == tasks.pc[k] \in {"fetch", "fetched"}

\* C17: in a batch on the single-threaded event loop, no other task reads or
\* writes the cache between a check's membership test and the same check's
\* cache write: while a check is between the two, the latest access to the
\* cache is its own test, and in the record of accesses nothing lies between
\* the test and the write of one check.
C17_TestAndWriteTogether ==
    /\ \A k \in 1..Len(tasks.urls) :
           MidCheck(k) => /\ tasks.trace # <<>>
                          /\ tasks.trace[Len(tasks.trace)] = [task |-> k, op |-> "test"]
    /\ \A a, b \in 1..Len(tasks.trace) :
           (/\ a < b
            /\ tasks.trace[a].task = tasks.trace[b].task)
           => b = a + 1

\* two checks of one batch have each tested and written the cache, the
\* second product's first
C17_Witness ==
    /\ Len(tasks.urls) = 2
    /\ Len(tasks.trace) = 4
    /\ tasks.trace[1] = [task |-> 2, op |-> "test"]
    /\ tasks.trace[2] = [task |-> 2, op |-> "write"]
    /\ tasks.trace[3] = [task |-> 1, op |-> "test"]
    /\ tasks.trace[4] = [task |-> 1, op |-> "write"]

(***************************************************************************)
(* The resolution of the site configuration (SpecResolve).                 *)
(***************************************************************************)
\* the host of a url: what stands between '//' and the next '/', without
\* the user information before '@' and without the port after ':'
AfterUserInfo(authority) ==
    SubSeq(authority, Find(authority, "@") + 1, Len(authority))

BeforePort(hostport) ==
    IF Find(hostport, ":") > 0 THEN SubSeq(hostport, 1, Find(hostport, ":") - 1)
    ELSE hostport

HostOf(url) == BeforePort(AfterUserInfo(NetlocOf(AfterScheme(url, Find(url, ":")))))

\* the keys of the file that are substrings of the text
KeysIn(configs, text) == {i \in 1..Len(configs) : Contains(configs[i].key, text)}

\* the configuration of the first key in the text, else the one keyed
\* 'default', else the empty one
FirstKeyConfig(configs, text) ==
    IF KeysIn(configs, text) # {}
    THEN configs[CHOOSE i \in KeysIn(configs, text) :
                     \A j \in KeysIn(configs, text) : i <= j].config
    ELSE IF \E i \in 1..Len(configs) : configs[i].key = DefaultKey
    THEN configs[CHOOSE i \in 1..Len(configs) : configs[i].key = DefaultKey].config
    ELSE EmptyDict

\* C18: get_site_config returns a configuration for every url: that of the
\* first key, in the order of the file, that is a substring of the url's
\* lower-cased host; the one keyed 'default' when no key is; the empty one
\* when there is no 'default' either.
C18_FirstKeyOfHost ==
    eng_out # EmptyDict =>
        /\ ~eng_out.raised
        /\ eng_out.config = FirstKeyConfig(eng_in.configs, Lower(HostOf(eng_in.url)))

(***************************************************************************)
(* The price extractor (SpecPrice).                                        *)
(***************************************************************************)
\* the amount of digits <<whole, decimals>> with two decimals
TwoDecimals(amount) == Format2f(100 * ToInt(amount[1]) + ToInt(amount[2]))

\* C19: for a text that holds the currency symbol before an amount with two
\* decimals, extract_price returns the currency symbol followed by that
\* amount with two decimals, whatever the spaces around it and whether a
\* comma or a period is the decimal mark.
C19_SymbolPrefixedAmount ==
    (eng_out # EmptyDict /\ eng_in.amount # <<>>)
        => eng_out.price = EuroSign \o TwoDecimals(eng_in.amount)

\* the five patterns in the order of the claim, for a currency symbol
PriorityOrder(symbol) ==
    << [kind |-> "prefix", lit |-> symbol],
       [kind |-> "suffix", lit |-> symbol],
       [kind |-> "prefix", lit |-> <<"E", "U", "R">>],
       [kind |-> "suffix", lit |-> <<"E", "U", "R">>],
       [kind |-> "bare", lit |-> <<>>] >>

\* the amount the k-th pattern of the order captures in the text as
\* extract_price searches it, NoneStr when the pattern does not match
Captured(k) ==
    re_search(PriorityOrder(eng_in.symbol)[k], StripSpacesCommas(eng_in.text))

\* C20: extract_price tries the patterns symbol-prefixed, symbol-suffixed,
\* code-prefixed, code-suffixed, bare two-decimal amount in this order, and
\* its result is the amount captured by the first of them that matches
\* anywhere in the text, also when a later pattern matches earlier in the
\* text.
C20_PatternPriority ==
    eng_out # EmptyDict =>
        \A k \in 1..5 :
            (/\ Captured(k) # NoneStr
             /\ \A j \in 1..(k - 1) : Captured(j) = NoneStr)
            => eng_out.price = eng_in.symbol \o Format2f(Cents(Captured(k)))

\* the script's copy was given "5.00EUR €2.00": the code-suffixed and the bare
\* pattern match at the start of the text, and the result is the amount
\* after the euro sign
C20_Witness ==
    /\ eng_in.symbol = SCRIPT_SYMBOL
    /\ eng_in.text = <<"5", ".", "0", "0", "E", "U", "R", " ">> \o EuroSign
                         \o <<"2", ".", "0", "0">>
    /\ Captured(1) = <<"2", ".", "0", "0">>
    /\ Captured(4) = <<"5", ".", "0", "0">>
    /\ Captured(5) = <<"5", ".", "0", "0">>
    /\ eng_out # EmptyDict
    /\ eng_out.price = EuroSign \o <<"2", ".", "0", "0">>

\* the texts of the inputs in which none of the five patterns matches
Unpriced == NoPriceTexts \cup {<<"x", " ", "x">>}

\* digits, a period, two digits
IsAmount(text) ==
    /\ Len(text) >= 4
    /\ text[Len(text) - 2] = "."
    /\ \A i \in 1..Len(text) : i # Len(text) - 2 => IsDigit(text[i])

\* float() accepts the text: digits, then at most one period and digits
FloatParses(text) ==
    /\ text # <<>> /\ IsDigit(text[1])
    /\ \A i \in 1..Len(text) : IsDigit(text[i]) \/ text[i] = "."
    /\ \A i, j \in 1..Len(text) : (text[i] = "." /\ text[j] = ".") => i = j

\* C21: extract_price returns None for None, for the empty text and for every
\* text in which none of the five patterns matches; for every other text it
\* returns a price string, the symbol and an amount with two decimals; it
\* never raises: float() accepts whatever a pattern captures.
C21_NoneOrPrice ==
    eng_out # EmptyDict =>
        /\ eng_in.text \in Unpriced => eng_out.price = NoneStr
        /\ eng_in.text \notin Unpriced =>
               /\ Len(eng_out.price) > Len(eng_in.symbol)
               /\ SubSeq(eng_out.price, 1, Len(eng_in.symbol)) = eng_in.symbol
               /\ IsAmount(SubSeq(eng_out.price, Len(eng_in.symbol) + 1,
                                  Len(eng_out.price)))
        /\ \A k \in 1..5 : Captured(k) # NoneStr => FloatParses(Captured(k))

\* a text with an amount of one decimal has no price
C21_Witness ==
    /\ eng_in.text = <<"1", "2", ".", "5">>
    /\ eng_out # EmptyDict
    /\ eng_out.price = NoneStr

(***************************************************************************)
(* The normalization of texts (SpecClean).                                 *)
(***************************************************************************)
\* C22: clean_text is idempotent, clean_text(clean_text(x)) = clean_text(x)
\* for every text x, and None and the empty text give the empty string.
C22_CleanIdempotent ==
    eng_out # EmptyDict =>
        /\ eng_out.twice = eng_out.once
        /\ Falsy(eng_in.text) => eng_out.once = <<>>

\* "A   b" was cleaned to "a b", and cleaning that again changed nothing
C22_Witness ==
    /\ eng_in.text = <<"A", " ", " ", " ", "b">>
    /\ eng_out # EmptyDict
    /\ eng_out.once = <<"a", " ", "b">>
    /\ eng_out.twice = <<"a", " ", "b">>

(***************************************************************************)
(* The price cascade (SpecEngine).                                         *)
(***************************************************************************)
\* the price selectors whose first element's text holds a price
PricedSelectors ==
    {k \in 1..Len(Get(eng_in.config, "price_selectors")) : PriceResolved(k)}

\* C23: the price selectors are tried in configuration order with the text of
\* their first element, and the scan stops at the first selector for which
\* extract_price returns a price; the page is scanned for an amount next to
\* the currency symbol only when no selector gave a price; a result without
\* a price is still a result.
C23_PriceCascade ==
    EngineDone =>
        /\ IF PricedSelectors = {}
           THEN /\ eng_out.price_tried = UpTo(Len(Get(eng_in.config, "price_selectors")))
                /\ eng_out.page_scanned
                /\ eng_out.price =
                       FirstPrice(eng_in.symbol,
                                  find_all_price_text(eng_in.symbol, eng_in.soup), FALSE)
           ELSE \E first \in PricedSelectors :
                    /\ \A k \in PricedSelectors : first <= k
                    /\ eng_out.price_tried = UpTo(first)
                    /\ ~eng_out.page_scanned
                    /\ eng_out.price =
                           FirstPrice(eng_in.symbol,
                                      Texts(select(eng_in.soup,
                                                   Get(eng_in.config,
                                                       "price_selectors")[first])),
                                      TRUE)
        /\ Result(eng_out, 0) # None
        /\ Result(eng_out, 0).price = eng_out.price

\* the first price selector matched an element without a price, no selector
\* and no text of the page gave one, and the result has no price
C23_Witness ==
    /\ EngineDone
    /\ Len(Get(eng_in.config, "price_selectors")) = 2
    /\ PriceMatched(1)
    /\ PricedSelectors = {}
    /\ eng_out.price_tried = <<1, 2>>
    /\ eng_out.page_scanned
    /\ eng_out.price = NoneStr
    /\ Result(eng_out, 0) # None

(***************************************************************************)
(* The two runners on one store (Spec).                                    *)
(***************************************************************************)
\* the copy of the code that runs the round
RunnerSymbol == IF round.runner = "bot" THEN BOT_SYMBOL ELSE SCRIPT_SYMBOL

\* the record was made by the copy symbol from the page soup, and so was the
\* result by the copy of the round's runner
SamePage(l, symbol, soup) ==
    /\ l.result # None
    /\ "available" \in DOMAIN l.prior
    /\ MakeResult(symbol, l.prior.url, soup, 0) # None
    /\ l.prior.available = MakeResult(symbol, l.prior.url, soup, 0).available
    /\ GetPrice(l.prior) = MakeResult(symbol, l.prior.url, soup, 0).price
    /\ l.result.available = MakeResult(RunnerSymbol, l.prior.url, soup, 0).available
    /\ l.result.price = MakeResult(RunnerSymbol, l.prior.url, soup, 0).price

\* C24 as stated: when the page and the configuration of a product are the
\* same in two consecutive successful checks, the second check emits neither
\* StateChanged nor PriceChanged, whichever runner made each of the checks.
C24_SamePageNoChange ==
    \A e \in 1..Len(round.log) :
        \A symbol \in {BOT_SYMBOL, SCRIPT_SYMBOL} :
            \A soup \in PagesOf(round.log[e].prior.url) :
                SamePage(round.log[e], symbol, soup)
                    => round.log[e].outcome = "Unchanged"

(***************************************************************************)
(* Store commands during a round (SpecShared).                             *)
(***************************************************************************)
\* the step is the save of a round
RoundSaves == round.pc = "loop" /\ round'.pc = "done" /\ round'.saved # <<>>

\* C25 as stated: a record that /add added, or that the remove button
\* removed, while a round was between its load and its save is still in the
\* store, respectively still absent, after the round's save.
C25_SaveKeepsStoreChanges ==
    [][RoundSaves =>
           \A url \in URLS :
               /\ (Monitored(products_file, url) /\ ~Monitored(round.products, url))
                      => Monitored(products_file', url)
               /\ (~Monitored(products_file, url) /\ Monitored(round.products, url))
                      => ~Monitored(products_file', url)]_vars

(***************************************************************************)
(* Notifications and the store (Spec).                                     *)
(***************************************************************************)
\* the notification kind for the product idx of the round was sent without
\* error
Delivered(kind, idx) ==
    \E m \in 1..Len(outbox) :
        outbox[m].kind = kind /\ outbox[m].idx = idx /\ outbox[m].ok

\* C26 as stated: a round gives a record's availability a new value only
\* when the StateChanged notification for that product was sent without
\* error; when the send fails the record keeps its old availability.
C26_ChangeStoredOnlyIfNotified ==
    RoundSaved =>
        \A e \in 1..Len(round.log) :
            \A j \in 1..Len(products_file) :
                (/\ products_file[j].url = round.log[e].prior.url
                 /\ "available" \in DOMAIN round.log[e].prior
                 /\ "available" \in DOMAIN products_file[j]
                 /\ products_file[j].available # round.log[e].prior.available)
                => Delivered("StateChanged", round.log[e].idx)

Without(products, url) == SelectSeq(products, LAMBDA p : p.url # url)

\* C28 as stated: a remove button deletes exactly the record whose url the
\* button showed when the keyboard was built, also when the store has
\* changed since; an index outside the current store removes nothing.
C28_RemovesShownUrl ==
    last_op.kind = "remove" =>
        /\ last_op.index <= Len(last_op.before)
               => last_op.after = Without(last_op.before, last_op.shown)
        /\ last_op.index > Len(last_op.before)
               => last_op.after = last_op.before

(***************************************************************************)
(* The summary of a round (Spec).                                          *)
(***************************************************************************)
\* the products of the round whose check succeeded
Succeeded == {e \in 1..Len(round.log) : round.log[e].result # None}

\* the round decided a StateChanged or PriceChanged notification
ChangeEmitted == \E e \in 1..Len(round.log) : round.log[e].outcome \in ChangeKinds

\* the summaries in the outbox
Summaries == {m \in 1..Len(outbox) : outbox[m].kind = "Summary"}

\* C29 as stated: the summary "no changes detected" of a round is sent
\* exactly when the round emitted no StateChanged and no PriceChanged
\* notification and the check of at least one product succeeded, and the
\* count it reports is the number of products whose check succeeded.
C29_SummaryOfSucceeded ==
    RoundSaved =>
        /\ Summaries # {} <=> (~ChangeEmitted /\ Succeeded # {})
        /\ \A m \in Summaries : outbox[m].n = Cardinality(Succeeded)

====
